---- MODULE Spec2Model ----
(***************************************************************************)
(* A model of the bhtt crate: the streaming histogram of Ben-Haim and      *)
(* Tom-Tov (src/src/bin.rs, src/src/histogram.rs).                         *)
(*                                                                         *)
(* Values are f64 in the crate.  Here a value is a rational <<n, d>> in    *)
(* lowest terms, and every arithmetic operation the crate performs on f64  *)
(* is the exact rational operation followed by Fl, IEEE-754 rounding to    *)
(* nearest, ties to even, onto a binary significand of MantissaBits bits   *)
(* (53 in f64).  The largest finite value is MaxFinite, and the exponents  *)
(* of small values reach twice as far down; the values of the histograms   *)
(* of the model stay far from overflow and underflow, and the calls of     *)
(* Bin::merge on its own inputs check for overflow.  With exact = TRUE the *)
(* rounding is switched off and the values are the exact rationals.        *)
(***************************************************************************)
EXTENDS Integers, Sequences, FiniteSets, TLC

VARIABLES hs, pre, last, steps, total, seen, calls, panicked, exact, call,
          inserted

vars == <<hs, pre, last, steps, total, seen, calls, panicked, exact, call,
          inserted>>

(***************************************************************************)
(* Bounds of the model.                                                    *)
(***************************************************************************)
MaxSize == 2
MaxOps == 3
MaxBinCount == 3
MantissaBits == 4
MaxExp == 12

H == {1, 2}

(***************************************************************************)
(* Rational arithmetic on pairs <<n, d>> with d > 0.  The operations give  *)
(* a pair that need not be in lowest terms; Fl brings it to lowest terms.  *)
(***************************************************************************)
Abs(n) == IF n < 0 THEN -n ELSE n
Sgn(n) == IF n < 0 THEN -1 ELSE 1
Min2(a, b) == IF a < b THEN a ELSE b

GCD(a, b) ==
    IF a = 0 THEN b
    ELSE IF b = 0 THEN a
    ELSE LET D == {g \in 1 .. Min2(a, b) : a % g = 0 /\ b % g = 0}
         IN  CHOOSE g \in D : \A h \in D : h <= g

Canon(x) ==
    LET g == GCD(Abs(x[1]), x[2])
    IN  <<x[1] \div g, x[2] \div g>>

Int2R(n) == <<n, 1>>
RAdd(a, b) == <<a[1] * b[2] + b[1] * a[2], a[2] * b[2]>>
RSub(a, b) == <<a[1] * b[2] - b[1] * a[2], a[2] * b[2]>>
RMul(a, b) == <<a[1] * b[1], a[2] * b[2]>>
RDiv(a, b) == <<Sgn(b[1]) * a[1] * b[2], a[2] * Abs(b[1])>>
RAbs(a) == <<Abs(a[1]), a[2]>>
RLt(a, b) == a[1] * b[2] < b[1] * a[2]
RLe(a, b) == a[1] * b[2] <= b[1] * a[2]
RGt(a, b) == RLt(b, a)
RGe(a, b) == RLe(b, a)
REq(a, b) == a[1] * b[2] = b[1] * a[2]

(***************************************************************************)
(* f64: rounding to nearest, ties to even.  For n / d > 0, RoundPos finds  *)
(* the power of two that scales n / d to MantissaBits bits before the      *)
(* point, rounds what is left of the point, and scales back.               *)
(***************************************************************************)
TopBit == 2 ^ (MantissaBits - 1)

RoundInt(n, d) ==
    LET m == n \div d
        r == n % d
    IN  IF 2 * r > d \/ (2 * r = d /\ m % 2 = 1) THEN m + 1 ELSE m

RoundPos(n, d) ==
    IF n >= d * TopBit
    THEN LET k == CHOOSE k \in 0 .. MaxExp : n < d * (2 ^ k) * 2 * TopBit
         IN  <<RoundInt(n, d * (2 ^ k)) * (2 ^ k), 1>>
    ELSE LET k == CHOOSE k \in 1 .. 2 * MaxExp : n * (2 ^ k) >= d * TopBit
         IN  Canon(<<RoundInt(n * (2 ^ k), d), 2 ^ k>>)

WithSign(sg, r) == <<sg * r[1], r[2]>>

FlRound(x) ==
    IF x[1] = 0 THEN <<0, 1>> ELSE WithSign(Sgn(x[1]), RoundPos(Abs(x[1]), x[2]))

Fl(x) == IF exact THEN Canon(x) ELSE FlRound(x)

FAdd(a, b) == Fl(RAdd(a, b))
FSub(a, b) == Fl(RSub(a, b))
FMul(a, b) == Fl(RMul(a, b))
FDiv(a, b) == Fl(RDiv(a, b))
\* `count as f64`
AsF64(c) == Fl(Int2R(c))

\* the largest finite float, and whether the exact result x of an operation
\* rounds to a finite float (it overflows to an infinity from half an ulp
\* above MaxFinite)
MaxFinite == (2 * TopBit - 1) * 2 ^ MaxExp
IsFinite(x) == 2 * Abs(x[1]) < x[2] * (4 * TopBit - 1) * 2 ^ MaxExp

Idx(s) == 1 .. Len(s)

\* Option<f64>
None == <<>>
Some(v) == <<v>>
Unwrap(o) == o[1]

(***************************************************************************)
(* Bin                                                                     *)
(***************************************************************************)
Bin_new(value, count) == [value |-> value, count |-> count]

Bin_empty(value) == Bin_new(value, 0)

\* #[derive(PartialOrd, Ord)]: by value, then by count
Bin_lt(a, b) ==
    RLt(a.value, b.value) \/ (a.value = b.value /\ a.count < b.count)
Bin_le(a, b) == a = b \/ Bin_lt(a, b)
Bin_gt(a, b) == Bin_lt(b, a)

\* the assertion of Bin::merge
Bin_merge_ok(left, right) == left.count + right.count > 0

\* a merge that keeps the left count only
Bin_merge_left_count(left, right) ==
    Bin_new(FDiv(FAdd(FMul(left.value, AsF64(left.count)),
                      FMul(right.value, AsF64(right.count))),
                 AsF64(left.count + right.count)),
            left.count)

Bin_merge(left, right) ==
    LET count == left.count + right.count
        value == FDiv(FAdd(FMul(left.value, AsF64(left.count)),
                           FMul(right.value, AsF64(right.count))),
                      AsF64(count))
    IN  Bin_new(value, count)

\* A call of Bin::merge with its outcome: the bin, or the message of the
\* assertion that fails.  A product that overflows is an infinity, the sum of
\* two infinities of opposite sign is NaN and any other sum with an infinity
\* is an infinity; dividing by the count keeps both, and Bin::new rejects
\* them.
Panic(msg) == [panic |-> TRUE, msg |-> msg]
Ok(v) == [panic |-> FALSE, value |-> v]

Bin_merge_products(pl, pr) ==
    IF ~IsFinite(pl) /\ ~IsFinite(pr) /\ Sgn(pl[1]) # Sgn(pr[1]) THEN "nan"
    ELSE IF ~IsFinite(pl) \/ ~IsFinite(pr) THEN "infinite"
    ELSE IF ~IsFinite(RAdd(Fl(pl), Fl(pr))) THEN "infinite"
    ELSE "finite"

Bin_merge_class(left, right) ==
    Bin_merge_products(RMul(left.value, AsF64(left.count)),
                       RMul(right.value, AsF64(right.count)))

Bin_merge_new(left, right, class) ==
    IF class = "nan" THEN Panic("value must not be NaN")
    ELSE IF class = "infinite" THEN Panic("value must be finite")
    ELSE Ok(Bin_merge(left, right))

Bin_merge_call(left, right) ==
    IF ~Bin_merge_ok(left, right) THEN Panic("count must be greater than zero")
    ELSE Bin_merge_new(left, right, Bin_merge_class(left, right))

(***************************************************************************)
(* Histogram                                                               *)
(***************************************************************************)
Histogram_new(size) ==
    [size |-> size, bins |-> <<>>, min_value |-> None, max_value |-> None]

RECURSIVE SumCounts(_)
SumCounts(bins) ==
    IF bins = <<>> THEN 0 ELSE Head(bins).count + SumCounts(Tail(bins))

count(h) == SumCounts(h.bins)
min(h) == h.min_value
max(h) == h.max_value

\* superslice's upper_bound: a binary search over the slice, with 0-based
\* positions; on a slice sorted by Bin's order it returns the number of
\* elements that are <= x.
RECURSIVE upper_bound_loop(_, _, _, _)
upper_bound_loop(s, x, base, size) ==
    IF size > 1
    THEN LET half == size \div 2
             mid == base + half
         IN  upper_bound_loop(s, x, IF Bin_gt(s[mid + 1], x) THEN base ELSE mid,
                              size - half)
    ELSE base

\* a search that ends without its last comparison
upper_bound_last_skipped(s, x, base) == base

upper_bound_last(s, x, base) == base + (IF Bin_gt(s[base + 1], x) THEN 0 ELSE 1)

upper_bound(s, x) ==
    IF Len(s) = 0 THEN 0
    ELSE upper_bound_last(s, x, upper_bound_loop(s, x, 0, Len(s)))

\* Vec::insert(pos, x) and Vec::remove(pos), 0-based
\* an insert that adds the count to a bin of the same value before pos
VecInsert_same_value(s, pos, x) ==
    IF pos > 0 /\ s[pos].value = x.value
    THEN [s EXCEPT ![pos] = Bin_new(x.value, s[pos].count + x.count)]
    ELSE SubSeq(s, 1, pos) \o <<x>> \o SubSeq(s, pos + 1, Len(s))

VecInsert(s, pos, x) == SubSeq(s, 1, pos) \o <<x>> \o SubSeq(s, pos + 1, Len(s))
\* a remove of the element before pos, the merged bin of a shrink
VecRemove_before(s, pos) == SubSeq(s, 1, pos - 1) \o SubSeq(s, pos + 1, Len(s))

VecRemove(s, pos) == SubSeq(s, 1, pos) \o SubSeq(s, pos + 2, Len(s))

\* the maximum tracked with the comparison of the minimum
track_min_max_same_test(h, value) ==
    [h EXCEPT
        !.min_value = Some(IF h.min_value = None THEN value
                           ELSE IF RLt(value, Unwrap(h.min_value)) THEN value
                           ELSE Unwrap(h.min_value)),
        !.max_value = Some(IF h.max_value = None THEN value
                           ELSE IF RLt(value, Unwrap(h.max_value)) THEN value
                           ELSE Unwrap(h.max_value))]

track_min_max(h, value) ==
    [h EXCEPT
        !.min_value = Some(IF h.min_value = None THEN value
                           ELSE IF RLt(value, Unwrap(h.min_value)) THEN value
                           ELSE Unwrap(h.min_value)),
        !.max_value = Some(IF h.max_value = None THEN value
                           ELSE IF RGt(value, Unwrap(h.max_value)) THEN value
                           ELSE Unwrap(h.max_value))]

\* the key of min_by_key for the pair (i - 1, i), 0-based right index i
closest_key(bins, i) ==
    <<RAbs(FSub(bins[i + 1].value, bins[i].value)),
      bins[i].count + bins[i + 1].count>>

\* a key compared by the distance alone
KeyLt_distance_only(k1, k2) == RLt(k1[1], k2[1])

KeyLt(k1, k2) == RLt(k1[1], k2[1]) \/ (k1[1] = k2[1] /\ k1[2] < k2[2])

\* Iterator::min_by_key keeps the first of several equally minimal elements
RECURSIVE min_by_key(_, _, _)
\* a search that keeps the last of several equally minimal elements
min_by_key_last(bins, i, best) ==
    IF i >= Len(bins) THEN best
    ELSE min_by_key(bins, i + 1,
                    IF KeyLt(closest_key(bins, best), closest_key(bins, i))
                    THEN best ELSE i)

min_by_key(bins, i, best) ==
    IF i >= Len(bins) THEN best
    ELSE min_by_key(bins, i + 1,
                    IF KeyLt(closest_key(bins, i), closest_key(bins, best))
                    THEN i ELSE best)

PairLeftOf(right_index) == <<right_index - 1, right_index>>

find_closest_bins(bins) ==
    PairLeftOf(IF Len(bins) < 2 THEN Len(bins) - 1 ELSE min_by_key(bins, 2, 1))

\* shrink: the loop ends when the size is restored or Bin::merge panics;
\* st collects one record per merge of the loop
RECURSIVE shrink(_, _, _)

shrink_next(bins, size, st, left, after) ==
    shrink(after, size, Append(st, [before |-> bins, left |-> left, after |-> after]))

shrink_pair(bins, size, st, c) ==
    IF Bin_merge_ok(bins[c[1] + 1], bins[c[2] + 1])
    THEN shrink_next(bins, size, st, c[1],
                     VecRemove([bins EXCEPT
                                   ![c[1] + 1] = Bin_merge(bins[c[1] + 1], bins[c[2] + 1])],
                               c[2]))
    ELSE [bins |-> bins, ok |-> FALSE, steps |-> st]

\* a loop that tolerates one bin too many
shrink_one_over(bins, size, st) ==
    IF Len(bins) > size + 1
    THEN shrink_pair(bins, size, st, find_closest_bins(bins))
    ELSE [bins |-> bins, ok |-> TRUE, steps |-> st]

shrink(bins, size, st) ==
    IF Len(bins) > size
    THEN shrink_pair(bins, size, st, find_closest_bins(bins))
    ELSE [bins |-> bins, ok |-> TRUE, steps |-> st]

\* Histogram::insert after self.shrink(), s: a panic leaves the bin inserted
\* and the extremes as they were
insert_tracked(h, bin, s) ==
    IF s.ok
    THEN [h |-> track_min_max([h EXCEPT !.bins = s.bins], bin.value),
          ok |-> TRUE, steps |-> s.steps]
    ELSE [h |-> [h EXCEPT !.bins = s.bins], ok |-> FALSE, steps |-> s.steps]

\* Histogram::insert; r is the result of the calls made so far on the histogram
insert(r, bin) ==
    IF ~r.ok THEN r
    ELSE insert_tracked(r.h, bin,
                        shrink(VecInsert(r.h.bins, upper_bound(r.h.bins, bin), bin),
                               r.h.size, r.steps))

Fresh(h) == [h |-> h, ok |-> TRUE, steps |-> <<>>]

RECURSIVE insert_all(_, _)
\* a panic ends the loop
insert_all(r, bins) ==
    IF ~r.ok \/ bins = <<>> THEN r ELSE insert_all(insert(r, Head(bins)), Tail(bins))

track_opt(h, o) == IF o # None THEN track_min_max(h, Unwrap(o)) ELSE h

merge_tracked(r, other) ==
    IF r.ok
    THEN [r EXCEPT !.h = track_opt(track_opt(r.h, other.min_value), other.max_value)]
    ELSE r

\* Histogram::merge
merge(h, other) == merge_tracked(insert_all(Fresh(h), other.bins), other)

get_bordering_bins(h, i) ==
    IF i = 0 THEN <<Bin_empty(Unwrap(h.min_value)), h.bins[1]>>
    ELSE IF i = Len(h.bins) THEN <<h.bins[Len(h.bins)], Bin_empty(Unwrap(h.max_value))>>
    ELSE <<h.bins[i], h.bins[i + 1]>>

\* index_of_cumulative_count_less_than: j is the 1-based position of the next
\* element of the scan, partial the sum before it
RECURSIVE cumulative_loop(_, _, _, _)

\* a take_while that also takes a partial count equal to the target
cumulative_take_equal(bins, target, j, partial, next) ==
    IF RGe(target, next) THEN cumulative_loop(bins, target, j + 1, next)
    ELSE <<j - 1, partial>>

cumulative_take(bins, target, j, partial, next) ==
    IF RGt(target, next) THEN cumulative_loop(bins, target, j + 1, next)
    ELSE <<j - 1, partial>>

cumulative_loop(bins, target, j, partial) ==
    IF j > Len(bins) THEN <<j - 1, partial>>
    ELSE cumulative_take(bins, target, j, partial,
             FAdd(partial,
                  FDiv(AsF64(bins[j].count
                                 + (IF j = 1 THEN Bin_empty(Int2R(0)) ELSE bins[j - 1]).count),
                       Int2R(2))))

index_of_cumulative_count_less_than(h, target_count) ==
    cumulative_loop(h.bins, target_count, 1, Int2R(0))

\* Histogram::quantile for 0 < q < 1 and count() > 0, up to the operands of
\* its closing formula (lines 191-199): the bordering bins, d and a.  The
\* root itself is not computed here.
quantile_operands(bb, qth_count, up_to_qth_count) ==
    [left |-> bb[1], right |-> bb[2],
     d |-> FSub(qth_count, up_to_qth_count),
     a |-> FSub(AsF64(bb[2].count), AsF64(bb[1].count))]

quantile_between(h, qth_count, ic) ==
    quantile_operands(get_bordering_bins(h, ic[1]), qth_count, ic[2])

quantile_uniform(h, qth_count) ==
    quantile_between(h, qth_count, index_of_cumulative_count_less_than(h, qth_count))

\* the ends of the bin list in place of the tracked extremes
quantile_bin_ends(h, q) ==
    IF REq(q, Int2R(0)) THEN (IF h.bins = <<>> THEN None ELSE Some(h.bins[1].value))
    ELSE IF REq(q, Int2R(1))
    THEN (IF h.bins = <<>> THEN None ELSE Some(h.bins[Len(h.bins)].value))
    ELSE IF count(h) = 0 THEN None
    ELSE Some(quantile_uniform(h, FMul(AsF64(count(h)), q)))

\* Histogram::quantile, for q in [0.0, 1.0]
quantile(h, q) ==
    IF REq(q, Int2R(0)) THEN min(h)
    ELSE IF REq(q, Int2R(1)) THEN max(h)
    ELSE IF count(h) = 0 THEN None
    ELSE Some(quantile_uniform(h, FMul(AsF64(count(h)), q)))

\* f64::NAN as an argument, and RangeInclusive::contains: every comparison
\* with NaN is false
NaN == <<0, 0>>
InRange01(q) == q # NaN /\ RLe(Int2R(0), q) /\ RLe(q, Int2R(1))

\* a quantile that looks at the count before it looks at q
quantile_call_count_first(h, q) ==
    IF count(h) = 0 THEN Ok(None)
    ELSE IF ~InRange01(q) THEN Panic("q must be in the range [0.0; 1.0]")
    ELSE Ok(quantile(h, q))

\* a call of Histogram::quantile with any f64 argument
quantile_call(h, q) ==
    IF ~InRange01(q) THEN Panic("q must be in the range [0.0; 1.0]")
    ELSE Ok(quantile(h, q))

\* f64::round (half away from zero) followed by `as u64` (saturating at 0)
RoundU64(x) == IF x[1] <= 0 THEN 0 ELSE (2 * x[1] + x[2]) \div (2 * x[2])

count_between(left_count, right_count, proximity_to_right) ==
    FMul(FDiv(FAdd(left_count,
                   FAdd(left_count, FMul(FSub(right_count, left_count), proximity_to_right))),
              Int2R(2)),
         proximity_to_right)

count_left_to_value(value, left_bin, right_bin) ==
    IF RLe(FSub(right_bin.value, left_bin.value), Int2R(0)) THEN Int2R(0)
    ELSE count_between(AsF64(left_bin.count), AsF64(right_bin.count),
                       FDiv(FSub(value, left_bin.value),
                            FSub(right_bin.value, left_bin.value)))

count_sum(count_up_to_left, value, bb) ==
    RoundU64(FAdd(FAdd(AsF64(count_up_to_left), FDiv(AsF64(bb[1].count), Int2R(2))),
                  count_left_to_value(value, bb[1], bb[2])))

SaturatingSub1(pos) == IF pos = 0 THEN 0 ELSE pos - 1

\* the sum of the counts up to pos instead of up to pos - 1
count_at_off_by_one(h, value, pos) ==
    count_sum(SumCounts(SubSeq(h.bins, 1, pos)), value, get_bordering_bins(h, pos))

count_at(h, value, pos) ==
    count_sum(SumCounts(SubSeq(h.bins, 1, SaturatingSub1(pos))), value,
              get_bordering_bins(h, pos))

\* Histogram::count_less_than_or_equal_to; a comparison with the NaN of
\* unwrap_or(f64::NAN) is false
count_less_than_or_equal_to(h, value) ==
    IF count(h) = 0 \/ (min(h) # None /\ RLt(value, Unwrap(min(h)))) THEN 0
    ELSE IF max(h) # None /\ RGe(value, Unwrap(max(h))) THEN count(h)
    ELSE count_at(h, value, upper_bound(h.bins, Bin_empty(value)))

(***************************************************************************)
(* The inputs of the model.  The values are floats whose significand has   *)
(* all bits but the first set (as 0.1 nearly has in f64), their negation   *)
(* and zero: sums and products of them round, and they are equally spaced. *)
(***************************************************************************)
FullValue == 2 ^ (MantissaBits - 1) - 1
Values == {Int2R(-FullValue), Int2R(0), Int2R(FullValue)}
Counts == 0 .. MaxBinCount

(***************************************************************************)
(* The state: two histograms, hs[1] and hs[2].  pre is hs before the last  *)
(* call, last the last call, steps the merges its shrink loop made, total  *)
(* and seen what was folded into each histogram, calls the number of calls *)
(* made, and panicked whether the last call panicked (the run ends then).  *)
(* inserted counts and sums the bins given to each histogram, and call is  *)
(* the last call of a function of Bin.                                     *)
(***************************************************************************)
NoCall == [fn |-> "none"]

\* inserted[i]: how many bins the calls on hs[i] gave to Histogram::insert,
\* and, in the runs on exact values, the sum of their value * count
NoBins == [bins |-> 0, weighted |-> Int2R(0)]

RECURSIVE WeightedSum(_)
WeightedSum(bins) ==
    IF bins = <<>> THEN Int2R(0)
    ELSE Canon(RAdd(RMul(Head(bins).value, Int2R(Head(bins).count)),
                    WeightedSum(Tail(bins))))

WithBins(was, bins) ==
    [bins |-> was.bins + Len(bins),
     weighted |-> IF exact THEN Canon(RAdd(was.weighted, WeightedSum(bins)))
                  ELSE was.weighted]

InitCommon ==
    /\ hs \in [H -> {Histogram_new(size) : size \in 1 .. MaxSize}]
    /\ pre = hs
    /\ last = [op |-> "new", h |-> 0, other |-> 0, bin |-> Bin_new(Int2R(0), 0)]
    /\ steps = <<>>
    /\ total = [i \in H |-> 0]
    /\ seen = [i \in H |-> {}]
    /\ calls = 0
    /\ panicked = FALSE
    /\ call = NoCall
    /\ inserted = [i \in H |-> NoBins]

Init == InitCommon /\ exact = FALSE
InitExact == InitCommon /\ exact = TRUE

\* the effect of a call on hs[i] with the result r
Apply(i, r, op, other, bin, folded, values) ==
    /\ hs' = [hs EXCEPT ![i] = r.h]
    /\ pre' = hs
    /\ last' = [op |-> op, h |-> i, other |-> other, bin |-> bin]
    /\ steps' = r.steps
    /\ total' = [total EXCEPT ![i] = @ + folded]
    /\ seen' = [seen EXCEPT ![i] = @ \cup values]
    /\ calls' = calls + 1
    /\ panicked' = ~r.ok
    /\ inserted' = [inserted EXCEPT
                        ![i] = WithBins(@, IF op = "merge" THEN hs[other].bins
                                           ELSE <<bin>>)]
    /\ UNCHANGED <<exact, call>>

Call(i, r, op, other, bin, folded, values) ==
    /\ ~panicked
    /\ calls < MaxOps
    /\ Apply(i, r, op, other, bin, folded, values)

\* h.insert(value): From<f64> for Bin gives the value the count 1
InsertValue(i, v) ==
    Call(i, insert(Fresh(hs[i]), Bin_new(v, 1)), "insert", 0, Bin_new(v, 1), 1, {v})

\* h.insert(Bin::new(value, count))
InsertBin(i, v, c) ==
    Call(i, insert(Fresh(hs[i]), Bin_new(v, c)), "insert", 0, Bin_new(v, c), c, {v})

OptSet(o) == IF o = None THEN {} ELSE {Unwrap(o)}

\* hs[i].merge(&hs[j])
Merge(i, j) ==
    /\ i # j
    /\ Call(i, merge(hs[i], hs[j]), "merge", j, Bin_new(Int2R(0), 0), count(hs[j]),
            {hs[j].bins[k].value : k \in 1 .. Len(hs[j].bins)}
                \cup OptSet(hs[j].min_value) \cup OptSet(hs[j].max_value))

Next ==
    \/ \E i \in H, v \in Values : InsertValue(i, v)
    \/ \E i \in H, v \in Values, c \in Counts : InsertBin(i, v, c)
    \/ \E i \in H, j \in H : Merge(i, j)

Spec == Init /\ [][Next]_vars
SpecExact == InitExact /\ [][Next]_vars

(***************************************************************************)
(* One histogram filled by inserts of bins, for the claims about what the  *)
(* queries compute on it.  Among the values is NearValue, the float that   *)
(* Bin::merge gives for two bins of the value -FullValue (as               *)
(* 0.10000000000000002 is for two bins of the value 0.1 in f64).           *)
(***************************************************************************)
QueryMaxSize == 3
QueryOps == 4

NearValue ==
    Bin_merge(Bin_new(Int2R(-FullValue), 1), Bin_new(Int2R(-FullValue), 2)).value
QueryValues == {Int2R(-FullValue), NearValue, Int2R(FullValue)}

InitQuery ==
    /\ hs \in {[i \in H |-> Histogram_new(IF i = 1 THEN size ELSE 1)] :
                  size \in 1 .. QueryMaxSize}
    /\ pre = hs
    /\ last = [op |-> "new", h |-> 0, other |-> 0, bin |-> Bin_new(Int2R(0), 0)]
    /\ steps = <<>>
    /\ total = [i \in H |-> 0]
    /\ seen = [i \in H |-> {}]
    /\ calls = 0
    /\ panicked = FALSE
    /\ exact = FALSE
    /\ call = NoCall
    /\ inserted = [i \in H |-> NoBins]

\* hs[1].insert(Bin::new(v, c))
QueryInsert(v, c) ==
    /\ ~panicked
    /\ calls < QueryOps
    /\ Apply(1, insert(Fresh(hs[1]), Bin_new(v, c)), "insert", 0, Bin_new(v, c), c, {v})

NextQuery == \E v \in QueryValues, c \in Counts : QueryInsert(v, c)

SpecQuery == InitQuery /\ [][NextQuery]_vars

(***************************************************************************)
(* Bin::merge on its own: any two bins that Bin::new accepts, the values   *)
(* of the histograms and the largest finite floats among them.             *)
(***************************************************************************)
BinValues == Values \cup {Int2R(-MaxFinite), Int2R(MaxFinite)}
BinInputs == {Bin_new(v, c) : v \in BinValues, c \in Counts}

InitBin ==
    /\ hs = [i \in H |-> Histogram_new(1)]
    /\ pre = hs
    /\ last = [op |-> "new", h |-> 0, other |-> 0, bin |-> Bin_new(Int2R(0), 0)]
    /\ steps = <<>>
    /\ total = [i \in H |-> 0]
    /\ seen = [i \in H |-> {}]
    /\ calls = 0
    /\ panicked = FALSE
    /\ exact = FALSE
    /\ call = NoCall
    /\ inserted = [i \in H |-> NoBins]

\* Bin::merge(&left, &right)
BinMerge(left, right) ==
    /\ call' = [fn |-> "Bin::merge", left |-> left, right |-> right,
                out |-> Bin_merge_call(left, right)]
    /\ UNCHANGED <<hs, pre, last, steps, total, seen, calls, panicked, exact,
                   inserted>>

NextBin == \E left \in BinInputs, right \in BinInputs : BinMerge(left, right)

SpecBin == InitBin /\ [][NextBin]_vars

(***************************************************************************)
(* The scenario of tests::insert and tests::from_iter: fifteen values into *)
(* a new histogram, one insert at a time or by Histogram::from_iter, with  *)
(* the values as exact rationals.  The size is 5 in the tests.             *)
(***************************************************************************)
ScenarioMaxSize == 7

ScenarioValues ==
    << <<1, 1>>, <<0, 1>>, <<-27, 5>>, <<-21, 10>>, <<17, 2>>, <<10, 1>>, <<43, 5>>,
       <<43, 10>>, <<39, 5>>, <<26, 5>>, <<-6, 1>>, <<-33, 5>>, <<1, 2>>, <<1, 2>>,
       <<21, 8>> >>

InitScenario ==
    /\ hs \in {[i \in H |-> Histogram_new(IF i = 1 THEN size ELSE 1)] :
                  size \in 1 .. ScenarioMaxSize}
    /\ pre = hs
    /\ last = [op |-> "new", h |-> 0, other |-> 0, bin |-> Bin_new(Int2R(0), 0)]
    /\ steps = <<>>
    /\ total = [i \in H |-> 0]
    /\ seen = [i \in H |-> {}]
    /\ calls = 0
    /\ panicked = FALSE
    /\ exact = TRUE
    /\ call = NoCall
    /\ inserted = [i \in H |-> NoBins]

ScenarioCall(r, op, bins, n, values) ==
    /\ hs' = [hs EXCEPT ![1] = r.h]
    /\ pre' = hs
    /\ last' = [op |-> op, h |-> 1, other |-> 0,
                bin |-> IF n = 1 THEN bins[1] ELSE Bin_new(Int2R(0), 0)]
    /\ steps' = r.steps
    /\ total' = [total EXCEPT ![1] = @ + n]
    /\ inserted' = [inserted EXCEPT ![1] = WithBins(@, bins)]
    /\ seen' = [seen EXCEPT ![1] = @ \cup values]
    /\ calls' = calls + n
    /\ panicked' = ~r.ok
    /\ UNCHANGED <<exact, call>>

\* h.insert(v) for the next value of the scenario
ScenarioInsert ==
    /\ ~panicked
    /\ last.op # "from_iter"
    /\ calls < Len(ScenarioValues)
    /\ ScenarioCall(insert(Fresh(hs[1]), Bin_new(ScenarioValues[calls + 1], 1)),
                    "insert", <<Bin_new(ScenarioValues[calls + 1], 1)>>, 1,
                    {ScenarioValues[calls + 1]})

\* Histogram::from_iter(size, &values)
ScenarioFromIter ==
    /\ calls = 0
    /\ ScenarioCall(insert_all(Fresh(Histogram_new(hs[1].size)),
                               [k \in Idx(ScenarioValues) |-> Bin_new(ScenarioValues[k], 1)]),
                    "from_iter",
                    [k \in Idx(ScenarioValues) |-> Bin_new(ScenarioValues[k], 1)],
                    Len(ScenarioValues),
                    {ScenarioValues[k] : k \in Idx(ScenarioValues)})

NextScenario == ScenarioInsert \/ ScenarioFromIter

SpecScenario == InitScenario /\ [][NextScenario]_vars

(***************************************************************************)
(* The claims.  A call that panics does not return: the claims about the   *)
(* state after a call are about the calls that return.                     *)
(***************************************************************************)
Returned == ~panicked
Bins(i) == hs[i].bins
Shrunk == steps # <<>>

\* C1: after calls that return, bins().len() <= size(); an insert into a
\* histogram that holds size bins returns with exactly size bins; size()
\* never changes.
C1_LenWithinSize ==
    Returned =>
        \A i \in H :
            /\ Len(Bins(i)) <= hs[i].size
            /\ hs[i].size = pre[i].size
            /\ (last.op = "insert" /\ last.h = i /\ Len(pre[i].bins) = pre[i].size)
                   => Len(Bins(i)) = hs[i].size

C1_Witness ==
    /\ Returned /\ last.op = "insert" /\ Shrunk
    /\ Len(pre[last.h].bins) = pre[last.h].size
    /\ Len(Bins(last.h)) = hs[last.h].size

\* C2: after calls that return, bins() is sorted ascending under Bin's total
\* order (value, then count): bins[k] <= bins[k + 1] for every adjacent pair.
C2_SortedByBinOrder ==
    Returned =>
        \A i \in H : \A k \in 1 .. Len(Bins(i)) - 1 : Bin_le(Bins(i)[k], Bins(i)[k + 1])

\* C3: count() is the exact total of the counts folded in (1 per bare value,
\* N per Bin(value, N), other.count() per merge), and no merge of the shrink
\* loop changes the sum of the counts.
C3_CountIsTotal ==
    Returned =>
        /\ \A i \in H : count(hs[i]) = total[i]
        /\ \A k \in Idx(steps) : SumCounts(steps[k].before) = SumCounts(steps[k].after)

C3_Witness ==
    /\ Returned /\ last.op = "merge" /\ Shrunk
    /\ count(hs[last.h]) = total[last.h]
    /\ count(pre[last.h]) > 0 /\ count(pre[last.other]) > 0

C5_BinsWithinExtremes ==
    Returned =>
        \A i \in H : \A k \in Idx(Bins(i)) :
            /\ RLe(Unwrap(min(hs[i])), Bins(i)[k].value)
            /\ RLe(Bins(i)[k].value, Unwrap(max(hs[i])))

OptLeast(a, b) ==
    IF a = None THEN b ELSE IF b = None THEN a
    ELSE IF RLt(Unwrap(b), Unwrap(a)) THEN b ELSE a
OptGreatest(a, b) ==
    IF a = None THEN b ELSE IF b = None THEN a
    ELSE IF RGt(Unwrap(b), Unwrap(a)) THEN b ELSE a

\* C6: after h1.merge(&h2) returns, h1.count() is the previous h1.count()
\* plus h2.count(), h1.min() and h1.max() are the smaller of the two previous
\* minima and the larger of the two previous maxima (an absent one yields the
\* other), and merging a histogram without bins changes nothing in h1.
C6_MergeAccumulates ==
    (Returned /\ last.op = "merge") =>
        LET h1 == hs[last.h]
            p1 == pre[last.h]
            h2 == pre[last.other]
        IN  /\ count(h1) = count(p1) + count(h2)
            /\ min(h1) = OptLeast(min(p1), min(h2))
            /\ max(h1) = OptGreatest(max(p1), max(h2))
            /\ h2.bins = <<>> => h1 = p1

\* C7: each merge of the shrink loop takes the adjacent pair (l, l + 1) that
\* is least under (absolute difference of the values, sum of the counts, l),
\* writes the merged bin over the left bin and removes the right bin.
PairDistance(b, j) == RAbs(FSub(b[j + 2].value, b[j + 1].value))
PairCount(b, j) == b[j + 1].count + b[j + 2].count
PairBefore(b, l, j) ==
    \/ RLt(PairDistance(b, l), PairDistance(b, j))
    \/ /\ PairDistance(b, l) = PairDistance(b, j)
       /\ \/ PairCount(b, l) < PairCount(b, j)
          \/ PairCount(b, l) = PairCount(b, j) /\ l < j

C7_ClosestPairMerged ==
    \A k \in Idx(steps) :
        LET b == steps[k].before
            a == steps[k].after
            l == steps[k].left
        IN  /\ l \in 0 .. Len(b) - 2
            /\ \A j \in 0 .. Len(b) - 2 : j # l => PairBefore(b, l, j)
            /\ Len(a) = Len(b) - 1
            /\ \A m \in 1 .. l : a[m] = b[m]
            /\ a[l + 1].count = b[l + 1].count + b[l + 2].count
            /\ a[l + 1].value =
                   FDiv(FAdd(FMul(b[l + 1].value, AsF64(b[l + 1].count)),
                             FMul(b[l + 2].value, AsF64(b[l + 2].count))),
                        AsF64(b[l + 1].count + b[l + 2].count))
            /\ \A m \in l + 2 .. Len(a) : a[m] = b[m + 1]

\* a merge where the distances tie and the counts decide, and one where the
\* index decides, against a pair further left and a pair further right
C7_Witness ==
    /\ Returned /\ Shrunk
    /\ LET b == steps[1].before
           l == steps[1].left
       IN  /\ Len(b) = 3
           /\ PairDistance(b, 0) = PairDistance(b, 1)
           /\ PairCount(b, 0) > PairCount(b, 1)
           /\ l = 1

C7_WitnessIndex ==
    /\ Returned /\ Shrunk
    /\ LET b == steps[1].before
       IN  /\ Len(b) = 3
           /\ PairDistance(b, 0) = PairDistance(b, 1)
           /\ PairCount(b, 0) = PairCount(b, 1)
           /\ steps[1].left = 0

\* C8: count_less_than_or_equal_to is non-decreasing in its argument, is 0
\* below min() and is count() at and above max().  ProbeAt(k) is
\* non-decreasing in k.
ProbeRange == 4 * (FullValue + 1)
ProbeAt(k) == Fl(<<k, 4>>)

C8_CountMonotone ==
    Returned =>
        \A i \in H : \A k \in -ProbeRange .. ProbeRange :
            LET c == count_less_than_or_equal_to(hs[i], ProbeAt(k))
            IN  /\ k < ProbeRange =>
                       c <= count_less_than_or_equal_to(hs[i], ProbeAt(k + 1))
                /\ (min(hs[i]) # None /\ RLt(ProbeAt(k), Unwrap(min(hs[i])))) => c = 0
                /\ (max(hs[i]) # None /\ RGe(ProbeAt(k), Unwrap(max(hs[i])))) => c = count(hs[i])

\* a histogram with merged bins where the estimate takes a value strictly
\* between 0 and count()
C8_Witness ==
    /\ Returned /\ Shrunk
    /\ \E k \in -ProbeRange .. ProbeRange :
           LET c == count_less_than_or_equal_to(hs[last.h], ProbeAt(k))
           IN  0 < c /\ c < count(hs[last.h])

\* C9: for q in [0, 1], quantile(q) is None iff the histogram has no bins
\* (nothing was inserted), whichever q is asked.
Quantiles == {<<0, 1>>, <<1, 4>>, <<1, 2>>, <<3, 4>>, <<1, 1>>}

C9_QuantileNoneIffEmpty ==
    Returned =>
        \A i \in H : \A q \in Quantiles :
            (quantile(hs[i], q) = None) <=> (Bins(i) = <<>>)

\* C10: on a histogram with bins, quantile(0.0) is min() and quantile(1.0) is
\* max(): the least and the greatest value folded in, not a bin value.
C10_BoundaryQuantiles ==
    Returned =>
        \A i \in H :
            Bins(i) # <<>> =>
                /\ quantile(hs[i], Int2R(0)) = min(hs[i])
                /\ quantile(hs[i], Int2R(1)) = max(hs[i])
                /\ quantile(hs[i], Int2R(0)) # None /\ quantile(hs[i], Int2R(1)) # None
                /\ \A v \in seen[i] :
                       /\ RLe(Unwrap(quantile(hs[i], Int2R(0))), v)
                       /\ RLe(v, Unwrap(quantile(hs[i], Int2R(1))))

C10_Witness ==
    /\ Returned /\ Shrunk
    /\ LET h == hs[last.h]
       IN  /\ Len(h.bins) >= 1
           /\ quantile(h, Int2R(0)) = min(h) /\ quantile(h, Int2R(1)) = max(h)
           /\ h.bins[1].value # Unwrap(min(h))
           /\ h.bins[Len(h.bins)].value # Unwrap(max(h))

\* C11: Bin::merge(left, right) fails exactly when left.count + right.count
\* is 0; otherwise it returns the bin with the sum of the counts and the
\* count-weighted average of the values.
C11_MergeFailsIffZeroCount ==
    call.fn = "Bin::merge" =>
        LET l == call.left
            r == call.right
        IN  /\ call.out.panic <=> (l.count + r.count = 0)
            /\ ~call.out.panic =>
                   /\ call.out.value.count = l.count + r.count
                   /\ call.out.value.value =
                          FDiv(FAdd(FMul(l.value, AsF64(l.count)),
                                    FMul(r.value, AsF64(r.count))),
                               AsF64(l.count + r.count))

\* the two parts of C11 that do hold: a combined count of 0 is rejected, and
\* a bin that is returned has the summed count and the weighted average
C11_ZeroCountRejected ==
    call.fn = "Bin::merge" =>
        /\ (call.left.count + call.right.count = 0) =>
               call.out = Panic("count must be greater than zero")
        /\ ~call.out.panic =>
               call.out.value = Bin_merge(call.left, call.right)

\* C12: quantile(q) fails iff q is NaN or outside [0.0, 1.0], on a histogram
\* without bins too (where it does not return None), and never for q within
\* the range.
QuantileArgs == Quantiles \cup {NaN, <<-1, 1>>, <<-1, 4>>, <<5, 4>>, <<2, 1>>}

C12_QuantileRangeChecked ==
    Returned =>
        \A i \in H : \A q \in QuantileArgs :
            /\ quantile_call(hs[i], q).panic
                   <=> (q = NaN \/ RLt(q, Int2R(0)) \/ RGt(q, Int2R(1)))
            /\ (Bins(i) = <<>> /\ q \in Quantiles) => quantile_call(hs[i], q) = Ok(None)

\* one histogram without bins and one with bins, asked out of and in range
C12_Witness ==
    /\ Returned
    /\ \E i \in H, j \in H :
           /\ Bins(i) = <<>> /\ count(hs[j]) > 0
           /\ quantile_call(hs[i], <<5, 4>>).panic /\ quantile_call(hs[i], NaN).panic
           /\ quantile_call(hs[i], <<1, 2>>) = Ok(None)
           /\ quantile_call(hs[j], <<-1, 4>>).panic /\ quantile_call(hs[j], NaN).panic
           /\ ~quantile_call(hs[j], <<1, 2>>).panic
           /\ quantile_call(hs[j], <<1, 2>>).value # None

\* C13: the fifteen values of the scenario, inserted in order into a new
\* histogram of size 5 by insert or by from_iter, give the bins (-6.0, 3),
\* (-2.1, 1), (0.5, 4), (97/24, 3), (8.725, 4), count 15, min -6.6 and max
\* 10.0; the merge of the last insert is decided between two pairs at the
\* distance 2.125 by the smaller sum of the counts.
ScenarioBins ==
    << Bin_new(<<-6, 1>>, 3), Bin_new(<<-21, 10>>, 1), Bin_new(<<1, 2>>, 4),
       Bin_new(<<97, 24>>, 3), Bin_new(<<349, 40>>, 4) >>

ScenarioDone == Returned /\ hs[1].size = 5 /\ calls = Len(ScenarioValues)

C13_Scenario ==
    ScenarioDone =>
        /\ Bins(1) = ScenarioBins
        /\ count(hs[1]) = 15
        /\ min(hs[1]) = Some(<<-33, 5>>)
        /\ max(hs[1]) = Some(<<10, 1>>)
        /\ LET b == steps[Len(steps)].before
               l == steps[Len(steps)].left
           IN  /\ PairDistance(b, l) = <<17, 8>>
               /\ \E j \in 0 .. Len(b) - 2 :
                      /\ j # l
                      /\ PairDistance(b, j) = <<17, 8>>
                      /\ PairCount(b, l) < PairCount(b, j)

C13_Witness ==
    /\ ScenarioDone /\ last.op = "insert" /\ last.bin = Bin_new(<<21, 8>>, 1)
    /\ Len(steps) = 1
    /\ Bins(1)[4] = Bin_new(<<97, 24>>, 3)

C13_WitnessFromIter ==
    /\ ScenarioDone /\ last.op = "from_iter"
    /\ Bins(1)[4] = Bin_new(<<97, 24>>, 3)

\* C14: for a histogram with bins and min() <= value < max(),
\* count_less_than_or_equal_to(value) is a nearest integer of
\* S + left.count / 2 + between, with pos the number of bins that are <= the
\* probe Bin(value, 0), S the sum of the counts before the index
\* max(pos - 1, 0), (left, right) the bins around pos (the bin (min, 0) left
\* of the first, the bin (max, 0) right of the last), and between 0 when
\* right.value <= left.value and (left.count + (left.count + (right.count -
\* left.count) * p)) / 2 * p otherwise, p = (value - left.value) /
\* (right.value - left.value).
SumPos(h, v) == Cardinality({k \in Idx(h.bins) : Bin_le(h.bins[k], Bin_new(v, 0))})
SumLeft(h, pos) == IF pos = 0 THEN Bin_new(Unwrap(min(h)), 0) ELSE h.bins[pos]
SumRight(h, pos) ==
    IF pos = Len(h.bins) THEN Bin_new(Unwrap(max(h)), 0) ELSE h.bins[pos + 1]
SumBefore(h, pos) == SumCounts(SubSeq(h.bins, 1, IF pos >= 1 THEN pos - 1 ELSE 0))
SumBetween(v, l, r) ==
    IF RLe(r.value, l.value) THEN Int2R(0)
    ELSE LET p == FDiv(FSub(v, l.value), FSub(r.value, l.value))
             lc == AsF64(l.count)
             rc == AsF64(r.count)
         IN  FMul(FDiv(FAdd(lc, FAdd(lc, FMul(FSub(rc, lc), p))), Int2R(2)), p)
SumProcedure(h, v) ==
    LET pos == SumPos(h, v)
        l == SumLeft(h, pos)
        r == SumRight(h, pos)
    IN  FAdd(FAdd(AsF64(SumBefore(h, pos)), FDiv(AsF64(l.count), Int2R(2))),
             SumBetween(v, l, r))
NearestInteger(n, x) ==
    /\ (2 * n - 1) * x[2] <= 2 * x[1]
    /\ 2 * x[1] <= (2 * n + 1) * x[2]
InsideExtremes(h, v) ==
    /\ h.bins # <<>>
    /\ RLe(Unwrap(min(h)), v) /\ RLt(v, Unwrap(max(h)))

C14_SumProcedure ==
    Returned =>
        \A i \in H : \A k \in -ProbeRange .. ProbeRange :
            InsideExtremes(hs[i], ProbeAt(k)) =>
                NearestInteger(count_less_than_or_equal_to(hs[i], ProbeAt(k)),
                               SumProcedure(hs[i], ProbeAt(k)))

\* a probe between two bins of different counts, past the first pair, whose
\* estimate lies strictly between the counts to its left and the total
C14_Witness ==
    /\ Returned /\ Shrunk
    /\ \E i \in H : \E k \in -ProbeRange .. ProbeRange :
           /\ InsideExtremes(hs[i], ProbeAt(k))
           /\ SumPos(hs[i], ProbeAt(k)) = 1 /\ Len(Bins(i)) = 2
           /\ Bins(i)[1].count # Bins(i)[2].count
           /\ RLt(Bins(i)[1].value, ProbeAt(k)) /\ RLt(ProbeAt(k), Bins(i)[2].value)
           /\ count_less_than_or_equal_to(hs[i], ProbeAt(k)) > 0
           /\ count_less_than_or_equal_to(hs[i], ProbeAt(k)) < count(hs[i])

\* C15: for 0 < q < 1 on a histogram with count() > 0, quantile works on
\* the bordering bins at k with the offset d: target is count() * q, the
\* prefix sum s_j adds (c_(m-1) + c_m) / 2 for m = 0 .. j (c_(-1) = 0), k is
\* the number of prefix sums strictly less than target, d is target - s_(k-1)
\* (target when k = 0); k = 0 pairs the bin (min, 0) with the first bin and
\* k = len the last bin with the bin (max, 0).
RECURSIVE PrefixSum(_, _)
PrefixSum(bins, j) ==
    IF j = 0 THEN Int2R(0)
    ELSE FAdd(PrefixSum(bins, j - 1),
              FDiv(AsF64((IF j = 1 THEN 0 ELSE bins[j - 1].count) + bins[j].count),
                   Int2R(2)))
PrefixesBelow(bins, target) ==
    Cardinality({j \in Idx(bins) : RLt(PrefixSum(bins, j), target)})
InnerQuantiles == {<<1, 4>>, <<1, 2>>, <<3, 4>>}

C15_QuantileIndex ==
    Returned =>
        \A i \in H : \A q \in InnerQuantiles :
            count(hs[i]) > 0 =>
                LET target == FMul(AsF64(count(hs[i])), q)
                    k == PrefixesBelow(Bins(i), target)
                    out == Unwrap(quantile(hs[i], q))
                IN  /\ out.left = IF k = 0 THEN Bin_new(Unwrap(min(hs[i])), 0)
                                  ELSE Bins(i)[k]
                    /\ out.right = IF k = Len(Bins(i)) THEN Bin_new(Unwrap(max(hs[i])), 0)
                                   ELSE Bins(i)[k + 1]
                    /\ out.d = FSub(target, PrefixSum(Bins(i), k))

\* a prefix sum equal to the target, not counted, with a bin on either side
C15_Witness ==
    /\ Returned
    /\ \E i \in H : \E q \in InnerQuantiles :
           /\ count(hs[i]) > 0 /\ Len(Bins(i)) = 2
           /\ PrefixSum(Bins(i), 1) = FMul(AsF64(count(hs[i])), q)
           /\ PrefixesBelow(Bins(i), FMul(AsF64(count(hs[i])), q)) = 0
           /\ Unwrap(quantile(hs[i], q)).right = Bins(i)[1]
           /\ Unwrap(quantile(hs[i], q)).d = FMul(AsF64(count(hs[i])), q)

\* C16: an insert of any bin that Bin::new accepts, and a merge, returns
\* normally: the shrink never reaches the zero-count failure of Bin::merge,
\* so no call ends with the bin added, one bin more than size in the list
\* and the extremes not updated.
C16_InsertReturns ==
    /\ ~panicked
    /\ \A i \in H : Len(Bins(i)) <= hs[i].size

\* C17: with the values taken as exact rationals, after any sequence of
\* insert and merge calls the bin values are non-decreasing along bins():
\* bins[i].value() <= bins[i+1].value() for every adjacent pair.
C17_ValuesNonDecreasing ==
    exact =>
        \A i \in H : \A k \in Idx(Bins(i)) :
            k < Len(Bins(i)) => RLe(Bins(i)[k].value, Bins(i)[k + 1].value)

\* a merged bin strictly between the values of its pair, with a bin after it
C17_Witness ==
    /\ exact /\ Returned /\ Shrunk
    /\ \E n \in Idx(steps) :
           LET st == steps[n]
           IN  /\ RLt(st.before[st.left + 1].value, st.after[st.left + 1].value)
               /\ RLt(st.after[st.left + 1].value, st.before[st.left + 2].value)
               /\ Len(st.after) > st.left + 1
               /\ RLt(st.after[st.left + 1].value, st.after[st.left + 2].value)

\* C18: after n bins were inserted into a new histogram (bare values, bins,
\* or bins inserted by merge) by calls that return, bins().len() is
\* min(n, size): no two bins are merged before an insert would exceed size,
\* bins of equal values included, and bins().len() never decreases.
C18_LenIsMinInsertedSize ==
    /\ Returned =>
           \A i \in H : Len(Bins(i)) = Min2(inserted[i].bins, hs[i].size)
    /\ \A i \in H : Len(Bins(i)) >= Len(pre[i].bins)

\* the same value inserted twice stays in two bins; a third bin is merged in
C18_Witness ==
    /\ Returned /\ last.op = "insert"
    /\ hs[last.h].size = 2 /\ inserted[last.h].bins = 2
    /\ Len(Bins(last.h)) = 2
    /\ Bins(last.h)[1].value = Bins(last.h)[2].value

C18_WitnessFull ==
    /\ Returned /\ Shrunk
    /\ inserted[last.h].bins = 3 /\ Len(Bins(last.h)) = hs[last.h].size
    /\ Len(Bins(last.h)) = Len(pre[last.h].bins)

\* C19: with the values taken as exact rationals, after any sequence of
\* insert and merge calls that return, the sum of value * count over bins()
\* is the sum of value * count over every bin inserted (value * 1 for a bare
\* value), so the count-weighted mean of the bins is the mean of what was
\* inserted.
C19_WeightedSumKept ==
    (exact /\ Returned) =>
        \A i \in H :
            /\ REq(WeightedSum(Bins(i)), inserted[i].weighted)
            /\ count(hs[i]) = total[i]
            /\ count(hs[i]) > 0 =>
                   REq(RDiv(WeightedSum(Bins(i)), Int2R(count(hs[i]))),
                       RDiv(inserted[i].weighted, Int2R(total[i])))

\* a shrink merged two bins of different values and counts above 0
C19_Witness ==
    /\ exact /\ Returned /\ Shrunk
    /\ \E n \in Idx(steps) :
           LET st == steps[n]
           IN  /\ st.before[st.left + 1].value # st.before[st.left + 2].value
               /\ st.before[st.left + 1].count > 0
               /\ st.before[st.left + 2].count > st.before[st.left + 1].count
    /\ inserted[last.h].weighted # Int2R(0)
    /\ REq(WeightedSum(Bins(last.h)), inserted[last.h].weighted)

====
